---- MODULE Spec2Model ----
(***************************************************************************)
(* Model of the feboy CPU core: the interrupt controller (interrupt.rs),   *)
(* the instruction executor with its end-of-instruction interrupt poll     *)
(* (instruction_executor.rs) and the host stepping loop (main.rs).         *)
(***************************************************************************)
EXTENDS Integers, Sequences, FiniteSets, TLC

VARIABLES
    enable,          \* InterruptHandler.enable (IE)
    flag,            \* InterruptHandler.flag (IF)
    pc,              \* gb.pc.0
    sp,              \* gb.sp
    ime,             \* gb.ime
    ime_counter,     \* gb.ime_counter
    halted,          \* gameboy.halted
    mem,             \* bytes written to the bus, address -> byte
    f,               \* gb.f, the flag register {z, n, h, c}
    regs,            \* gb.a, gb.b, gb.c, gb.d, gb.e, gb.h, gb.l
    overflow_checks, \* build profile: TRUE = arithmetic overflow panics
    panicked,        \* the process has panicked
    steps,           \* number of steps taken (bounded by MaxSteps)
    elapsed_cycles,  \* run_frame: cycles accumulated in the current frame
    mmu_cycles,      \* gameboy.mmu.cycles: cycles the core charged to the bus
    last             \* observation of the last operation

vars == <<enable, flag, pc, sp, ime, ime_counter, halted, mem, f, regs,
          overflow_checks, panicked, steps, elapsed_cycles, mmu_cycles, last>>

frame_vars == <<elapsed_cycles, mmu_cycles>>

cpu_vars == <<pc, sp, ime, ime_counter, halted, mem, f, regs, overflow_checks, panicked, steps,
              elapsed_cycles, mmu_cycles>>

----------------------------------------------------------------------------
(* Bounds *)

MaxSteps == 3

\* steps taken under SpecFlow and under SpecALU
MaxFlowSteps == 2
MaxAluSteps == 1

----------------------------------------------------------------------------
(* Byte and word arithmetic *)

Byte == 0..255

\* bit k of x
Bit(x, k) == (x \div (2 ^ k)) % 2

\* a & b on u8, bit by bit
AndBits(a, b) ==
    Bit(a, 0) * Bit(b, 0) + 2 * Bit(a, 1) * Bit(b, 1) + 4 * Bit(a, 2) * Bit(b, 2)
    + 8 * Bit(a, 3) * Bit(b, 3) + 16 * Bit(a, 4) * Bit(b, 4) + 32 * Bit(a, 5) * Bit(b, 5)
    + 64 * Bit(a, 6) * Bit(b, 6) + 128 * Bit(a, 7) * Bit(b, 7)

\* the same, tabulated once
AndTable == [a \in Byte |-> [b \in Byte |-> AndBits(a, b)]]

\* a & b, a | b and !a on u8
BitAnd8(a, b) == AndTable[a][b]
BitOr8(a, b) == a + b - AndTable[a][b]
BitNot8(a) == 255 - a

----------------------------------------------------------------------------
(* interrupt.rs: the interrupt controller *)

VBlankInt == 64
StatInt == 72
TimerInt == 80
SerialInt == 88
JoypadInt == 96

IE_ADDRESS == 65535
IF_ADDRESS == 65295

\* the array literal of get_state / handle_interrupts, in iteration order
Priority == <<VBlankInt, StatInt, TimerInt, SerialInt, JoypadInt>>

InterruptIds == {Priority[k] : k \in 1..Len(Priority)}

\* impl Index<InterruptId> for InterruptHandler, with the masks of new()
Mask(id) ==
    CASE id = VBlankInt -> 1
      [] id = StatInt -> 2
      [] id = TimerInt -> 4
      [] id = SerialInt -> 8
      [] id = JoypadInt -> 16

\* InterruptHandler::new
NewEnable == 0
NewFlag == 0

calc_state_m(en, fl, interrupt) ==
    LET mask == Mask(interrupt)
        enabled == BitAnd8(en, mask) # 0
        requested == BitAnd8(fl, mask) # 0
    IN IF requested \/ enabled THEN "Active"
       ELSE IF enabled THEN "Enabled"
       ELSE IF requested THEN "Requested"
       ELSE "Inactive"

calc_state(en, fl, interrupt) ==
    LET mask == Mask(interrupt)
        enabled == BitAnd8(en, mask) # 0
        requested == BitAnd8(fl, mask) # 0
    IN IF requested /\ enabled THEN "Active"
       ELSE IF enabled THEN "Enabled"
       ELSE IF requested THEN "Requested"
       ELSE "Inactive"

\* position of an id in the priority array
IndexOf(id) == CHOOSE k \in 1..Len(Priority) : Priority[k] = id

get_state(en, fl, interrupt) ==
    LET \* take_while(i != interrupt): the ids strictly before interrupt
        before == 1..(IndexOf(interrupt) - 1)
        \* filter(calc_state(i) == Active)
        active == {k \in before : calc_state(en, fl, Priority[k]) = "Active"}
    IN IF active # {}
       THEN \* next(): the first of them
            calc_state(en, fl, Priority[CHOOSE k \in active : \A j \in active : k <= j])
       ELSE calc_state(en, fl, interrupt)

\* set with `+=` / `-=` written for `|=` / `&= !`
RECURSIVE set_m(_, _, _)
set_m(fl, interrupts, on) ==
    IF interrupts = <<>> THEN fl
    ELSE set_m(IF on THEN (fl + Mask(Head(interrupts))) % 256
               ELSE (fl - Mask(Head(interrupts))) % 256,
               Tail(interrupts), on)

\* InterruptHandler::set on IF, interrupts given as a sequence (Vec)
RECURSIVE set(_, _, _)
set(fl, interrupts, on) ==
    IF interrupts = <<>> THEN fl
    ELSE set(IF on THEN BitOr8(fl, Mask(Head(interrupts)))
             ELSE BitAnd8(fl, BitNot8(Mask(Head(interrupts)))),
             Tail(interrupts), on)

\* InterruptHandler::read; None is modelled as -1
read(en, fl, address) ==
    IF address = IE_ADDRESS THEN en
    ELSE IF address = IF_ADDRESS THEN fl
    ELSE -1

\* InterruptHandler::write: the new (enable, flag) and the returned bool
write(en, fl, address, value) ==
    IF address = IE_ADDRESS THEN [enable |-> BitOr8(value, 224), flag |-> fl, ret |-> TRUE]
    ELSE IF address = IF_ADDRESS THEN [enable |-> en, flag |-> BitOr8(value, 224), ret |-> TRUE]
    ELSE [enable |-> en, flag |-> fl, ret |-> FALSE]

----------------------------------------------------------------------------
(* The memory bus as the executor sees it: IE and IF are served by the     *)
(* interrupt controller, every other address is plain memory.              *)

MemPut(m, a, v) == [x \in (DOMAIN m) \cup {a} |-> IF x = a THEN v ELSE m[x]]

BusRead(s, a) ==
    IF read(s.enable, s.flag, a) # -1 THEN read(s.enable, s.flag, a)
    ELSE IF a \in DOMAIN s.mem THEN s.mem[a] ELSE 0

BusWrite(s, a, v) ==
    LET w == write(s.enable, s.flag, a, v)
    IN IF w.ret THEN [s EXCEPT !.enable = w.enable, !.flag = w.flag]
       ELSE [s EXCEPT !.mem = MemPut(s.mem, a, v)]

----------------------------------------------------------------------------
(* Integer arithmetic of the executor.  `x - y` and `x + y` on u16 panic   *)
(* when overflow checks are compiled in and wrap otherwise; wrapping_add   *)
(* and wrapping_sub always wrap.                                           *)

SubU16(x, y, checks) ==
    IF x - y < 0 THEN [v |-> (x - y) % 65536, panic |-> checks]
    ELSE [v |-> x - y, panic |-> FALSE]

AddU16(x, y, checks) ==
    IF x + y > 65535 THEN [v |-> (x + y) % 65536, panic |-> checks]
    ELSE [v |-> x + y, panic |-> FALSE]

WrappingAdd16(x, y) == (x + y) % 65536
WrappingSub16(x, y) == (x - y) % 65536

\* u16::to_le_bytes and u16::from_le_bytes
Lo(w) == w % 256
Hi(w) == w \div 256
FromLeBytes(lo, hi) == lo + 256 * hi

----------------------------------------------------------------------------
(* The register file: seven byte registers, paired as BC, DE and HL, and   *)
(* the flag register with its packed value.                                *)

RegisterIds == {"a", "b", "c", "d", "e", "h", "l"}

ZeroRegs == [r \in RegisterIds |-> 0]

\* WordRegister::Double(high, low): the ids of the two halves
High(rr) == CASE rr = "BC" -> "b" [] rr = "DE" -> "d" [] rr = "HL" -> "h"
Low(rr) == CASE rr = "BC" -> "c" [] rr = "DE" -> "e" [] rr = "HL" -> "l"

\* WordRegister::to_address of a pair or of SP
to_address(s, rr) ==
    IF rr = "SP" THEN s.sp ELSE 256 * s.regs[High(rr)] + s.regs[Low(rr)]

\* Gameboy::hl
hl(s) == to_address(s, "HL")

\* Gameboy::set_word_register(value, reg)
set_word_register(s, value, rr) ==
    IF rr = "SP" THEN [s EXCEPT !.sp = value]
    ELSE [s EXCEPT !.regs = [s.regs EXCEPT ![High(rr)] = Hi(value), ![Low(rr)] = Lo(value)]]

\* Gameboy::set_flags(z, n, h, c)
set_flags(s, z, n, h, c) == [s EXCEPT !.f = [z |-> z, n |-> n, h |-> h, c |-> c]]

\* FlagRegister::value: (z<<7)|(n<<6)|(h<<5)|(c<<4)
FlagValue(fl) ==
    (IF fl.z THEN 128 ELSE 0) + (IF fl.n THEN 64 ELSE 0)
    + (IF fl.h THEN 32 ELSE 0) + (IF fl.c THEN 16 ELSE 0)

\* FlagRegister::set(byte): the four flags read from bits 7..4 of the byte
FlagSet(byte) ==
    [z |-> Bit(byte, 7) = 1, n |-> Bit(byte, 6) = 1, h |-> Bit(byte, 5) = 1, c |-> Bit(byte, 4) = 1]

----------------------------------------------------------------------------
(* instruction_executor.rs *)

\* the four lines that push a word with `sp - 1` (CALL, dispatch)
PushWord(s, value, checks) ==
    LET d1 == SubU16(s.sp, 1, checks)
    IN IF d1.panic THEN [s EXCEPT !.panic = TRUE]
       ELSE LET s1 == BusWrite([s EXCEPT !.sp = d1.v], d1.v, Hi(value))
                d2 == SubU16(d1.v, 1, checks)
            IN IF d2.panic THEN [s1 EXCEPT !.panic = TRUE]
               ELSE BusWrite([s1 EXCEPT !.sp = d2.v], d2.v, Lo(value))

Max(a, b) == IF a >= b THEN a ELSE b

\* handle_interrupts, lines 365-370: the delayed-enable counter
advance_ime_counter_m(s) ==
    LET c == s.ime_counter - 1
    IN IF c <= 0 THEN [s EXCEPT !.ime_counter = c, !.ime = TRUE]
       ELSE [s EXCEPT !.ime_counter = Max(c, -1)]

advance_ime_counter(s) ==
    LET c == s.ime_counter - 1
    IN IF c = 0 THEN [s EXCEPT !.ime_counter = c, !.ime = TRUE]
       ELSE [s EXCEPT !.ime_counter = Max(c, -1)]

\* the loop matching Requested as well as Active, ignoring IE
FirstActive_m(en, fl) ==
    LET act == {k \in 1..Len(Priority) : get_state(en, fl, Priority[k]) \in {"Active", "Requested"}}
    IN IF act = {} THEN 0 ELSE Priority[CHOOSE k \in act : \A j \in act : k <= j]

\* the for loop of handle_interrupts: the first id whose state is Active, 0 if none
FirstActive(en, fl) ==
    LET act == {k \in 1..Len(Priority) : get_state(en, fl, Priority[k]) = "Active"}
    IN IF act = {} THEN 0 ELSE Priority[CHOOSE k \in act : \A j \in act : k <= j]

\* the Active arm of handle_interrupts
dispatch(s, id, checks) ==
    LET s1 == [s EXCEPT !.ime = FALSE, !.flag = set(s.flag, <<id>>, FALSE)]
        s2 == PushWord(s1, s1.pc, checks)
    IN IF s2.panic THEN s2 ELSE [s2 EXCEPT !.pc = id]

\* handle_interrupts with the `if !gb.ime { return false; }` gate removed
handle_interrupts_m(s, checks) ==
    LET s1 == advance_ime_counter(s)
        id == FirstActive(s1.enable, s1.flag)
        obs == [counter_in |-> s.ime_counter, ime_in |-> s.ime, ime_check |-> s1.ime,
                pc |-> s.pc, sp |-> s.sp, enable |-> s.enable, flag |-> s.flag]
    IN IF id = 0 THEN [s |-> s1, dispatched |-> 0, poll |-> obs]
       ELSE [s |-> dispatch(s1, id, checks), dispatched |-> id, poll |-> obs]

\* handle_interrupts: the state after the poll, the source dispatched (0 for
\* `false`) and what the poll saw on entry
handle_interrupts(s, checks) ==
    LET s1 == advance_ime_counter(s)
        id == FirstActive(s1.enable, s1.flag)
        obs == [counter_in |-> s.ime_counter, ime_in |-> s.ime, ime_check |-> s1.ime,
                pc |-> s.pc, sp |-> s.sp, enable |-> s.enable, flag |-> s.flag]
    IN IF ~s1.ime THEN [s |-> s1, dispatched |-> 0, poll |-> obs]
       ELSE IF id = 0 THEN [s |-> s1, dispatched |-> 0, poll |-> obs]
       ELSE [s |-> dispatch(s1, id, checks), dispatched |-> id, poll |-> obs]

\* Instruction::size, the encoded length in bytes
Size(instr) ==
    CASE instr.op \in {"CALL_N16", "JP_CC_N16", "JP_N16", "CALL_CC_N16", "LD_R16_N16"} -> 3
      [] instr.op \in {"JR_E8", "JR_CC_E8", "ADD_A_N8", "ADC_A_N8", "SUB_A_N8", "SBC_A_N8",
                       "ADD_SP_E8", "LD_HL_SP_E8", "LD_R8_N8", "BIT_U3_R8", "BIT_U3_HL",
                       "RES_U3_R8", "RES_U3_HL", "SET_U3_R8", "SET_U3_HL"} -> 2
      [] OTHER -> 1

\* Instruction::cycles(condition): base cost, or the not-taken cost
Cycles(instr, condition) ==
    CASE instr.op = "CALL_N16" -> 24
      [] instr.op \in {"RET", "RETI"} -> 16
      [] instr.op = "JP_CC_N16" -> IF condition THEN 16 ELSE 12
      [] instr.op = "CALL_CC_N16" -> IF condition THEN 24 ELSE 12
      [] instr.op = "RET_CC" -> IF condition THEN 20 ELSE 8
      [] instr.op = "JR_CC_E8" -> IF condition THEN 12 ELSE 8
      [] instr.op \in {"JP_N16", "PUSH_R16", "PUSH_AF", "RST", "ADD_SP_E8",
                       "RES_U3_HL", "SET_U3_HL"} -> 16
      [] instr.op \in {"JR_E8", "POP_R16", "LD_R16_N16", "LD_HL_SP_E8", "BIT_U3_HL"} -> 12
      [] instr.op \in {"ADD_A_N8", "ADC_A_N8", "SUB_A_N8", "SBC_A_N8", "LD_R8_N8",
                       "ADD_HL_R16", "ADD_HL_SP", "ADD_A_HL", "ADC_A_HL", "SUB_A_HL",
                       "SBC_A_HL", "BIT_U3_R8", "RES_U3_R8", "SET_U3_R8"} -> 8
      [] OTHER -> 4

\* Gameboy::cc_flag
cc_flag(fl, cc) ==
    CASE cc = "NZ" -> ~fl.z
      [] cc = "Z" -> fl.z
      [] cc = "NC" -> ~fl.c
      [] cc = "C" -> fl.c

\* the operand of ADD_A_R8(ByteRegister(n, _)) | ADD_A_N8(n): the value the
\* register held when the instruction was decoded, or the immediate
N8(s, instr) == IF instr.r # "-" THEN s.regs[instr.r] ELSE instr.n

\* u8::overflowing_add / u8::overflowing_sub, selected by name
Overflowing8(op, a, b) ==
    IF op = "add" THEN [v |-> (a + b) % 256, o |-> a + b > 255]
    ELSE [v |-> (a - b) % 256, o |-> a < b]

\* the loop of calc_with_carry from operand k on
RECURSIVE calc_loop(_, _, _, _, _)
calc_loop(operands, k, acc, c, op) ==
    IF k > Len(operands) THEN [v |-> acc, c |-> c]
    ELSE LET res == Overflowing8(op, acc, operands[k])
         IN IF ~c THEN calc_loop(operands, k + 1, res.v, res.o, op)
            ELSE calc_loop(operands, k + 1, res.v, c, op)

\* calc_with_carry(operands, &mut 0, op)
calc_with_carry(operands, op) == calc_loop(operands, 1, 0, FALSE, op)

\* half_carry_8_add: `b + c` is a plain u8 addition
half_carry_8_add(a, b, c, checks) ==
    LET bc == (b + c) % 256
    IN [v |-> Bit((a % 16) + (bc % 16), 4) = 1, panic |-> (b + c > 255) /\ checks]

\* half_carry_8_sub: wrapping_sub and wrapping_add on u8
half_carry_8_sub(a, b, c) ==
    LET bc == (b + c) % 256
    IN Bit(((a % 16) - (bc % 16)) % 256, 4) = 1

\* half_carry_16_add: ((a & 0xFF) + ((b + c) & 0xFF)) & 0x10 == 0x1000
half_carry_16_add(a, b, c) ==
    LET bc == (b + c) % 65536
        x == ((a % 256) + (bc % 256)) % 65536
    IN 16 * Bit(x, 4) = 4096

\* half_carry_16_sub: ((a & 0xFF) - ((b + c) & 0xFF)) & 0x10 == 0x1000
half_carry_16_sub(a, b, c) ==
    LET bc == (b + c) % 65536
        x == ((a % 256) - (bc % 256)) % 65536
    IN 16 * Bit(x, 4) = 4096

\* u16::overflowing_add / u16::overflowing_sub
OverflowingAdd16(a, b) == [v |-> (a + b) % 65536, o |-> a + b > 65535]
OverflowingSub16(a, b) == [v |-> (a - b) % 65536, o |-> a < b]

\* the ADD_A / ADC_A arms with carry input `carry`
add_a(s, n, operands, carry, checks) ==
    LET r == calc_with_carry(operands, "add")
        hc == half_carry_8_add(s.regs["a"], n, carry, checks)
    IN IF hc.panic THEN [s EXCEPT !.panic = TRUE]
       ELSE [set_flags(s, r.v = 0, FALSE, hc.v, r.c) EXCEPT !.regs["a"] = r.v]

\* the SUB_A / SBC_A arms: A is stored before the flags are computed
sub_a(s, n, operands, carry) ==
    LET r == calc_with_carry(operands, "sub")
        s1 == [s EXCEPT !.regs["a"] = r.v]
    IN set_flags(s1, s1.regs["a"] = 0, TRUE, half_carry_8_sub(s1.regs["a"], n, carry), r.c)

\* the ADD_SP_E8(n) | LD_HL_SP_E8(n) arm
add_sp_e8(s, n, dest) ==
    LET m == (n % 256) % 128
        r == IF n < 0 THEN OverflowingSub16(s.sp, m) ELSE OverflowingAdd16(s.sp, m)
        half_carry == IF n < 0 THEN half_carry_16_sub(s.sp, m, 0)
                      ELSE half_carry_16_add(s.sp, m, 0)
    IN set_word_register(set_flags(s, FALSE, FALSE, half_carry, r.o), r.v, dest)

\* the byte stored before SP is decremented
push_byte_m(s, value) ==
    LET a == WrappingSub16(s.sp, 1)
    IN [BusWrite(s, s.sp, value) EXCEPT !.sp = a]

\* one `gb.set_word_register(sp.wrapping_sub(1), gb.sp); gb.mem *= (gb.sp, value)`
push_byte(s, value) ==
    LET a == WrappingSub16(s.sp, 1)
    IN BusWrite([s EXCEPT !.sp = a], a, value)

\* POP AF with the two stack bytes exchanged
pop_r16_m(s, rr) ==
    IF rr = "AF"
    THEN [s EXCEPT !.f = FlagSet(BusRead(s, WrappingAdd16(s.sp, 1))),
                   !.regs["a"] = BusRead(s, s.sp),
                   !.sp = WrappingAdd16(s.sp, 2)]
    ELSE LET s1 == [s EXCEPT !.regs[Low(rr)] = BusRead(s, s.sp), !.sp = WrappingAdd16(s.sp, 1)]
         IN [s1 EXCEPT !.regs[High(rr)] = BusRead(s1, s1.sp), !.sp = WrappingAdd16(s1.sp, 1)]

\* the POP_R16 arm
pop_r16(s, rr) ==
    IF rr = "AF"
    THEN [s EXCEPT !.f = FlagSet(BusRead(s, s.sp)),
                   !.regs["a"] = BusRead(s, WrappingAdd16(s.sp, 1)),
                   !.sp = WrappingAdd16(s.sp, 2)]
    ELSE LET s1 == [s EXCEPT !.regs[Low(rr)] = BusRead(s, s.sp), !.sp = WrappingAdd16(s.sp, 1)]
         IN [s1 EXCEPT !.regs[High(rr)] = BusRead(s1, s1.sp), !.sp = WrappingAdd16(s1.sp, 1)]

\* JR: (gb.pc.0 as i16 + n as i16) as u16
jr(s, n, checks) ==
    LET spc == IF s.pc >= 32768 THEN s.pc - 65536 ELSE s.pc
        sum == spc + n
    IN IF (sum > 32767 \/ sum < -32768) /\ checks THEN [s EXCEPT !.panic = TRUE]
       ELSE [s EXCEPT !.pc = sum % 65536]

\* the CALL_N16 arm, shared verbatim by the taken CALL_CC_N16
call_body(s, n, checks) ==
    LET s1 == PushWord(s, s.pc, checks)
    IN IF s1.panic THEN s1 ELSE [s1 EXCEPT !.pc = n]

\* RET with the two bytes of the return address exchanged
ret_body_m(s) ==
    LET lo == BusRead(s, s.sp)
        hi == BusRead(s, WrappingAdd16(s.sp, 1))
    IN [s EXCEPT !.pc = FromLeBytes(hi, lo), !.sp = WrappingAdd16(s.sp, 2)]

\* the RET arm, shared verbatim by RETI
ret_body(s) ==
    LET lo == BusRead(s, s.sp)
        hi == BusRead(s, WrappingAdd16(s.sp, 1))
    IN [s EXCEPT !.pc = FromLeBytes(lo, hi), !.sp = WrappingAdd16(s.sp, 2)]

\* the four conditional arms with the not-taken CALL cc pushing the return
\* address before the condition is tested
cond_arm_m(s, instr, checks) ==
    CASE instr.op = "RET_CC" ->
            IF cc_flag(s.f, instr.cc) THEN [s |-> ret_body(s), condition |-> TRUE]
            ELSE [s |-> s, condition |-> FALSE]
      [] instr.op = "JP_CC_N16" ->
            IF cc_flag(s.f, instr.cc)
            THEN [s |-> [s EXCEPT !.pc = instr.n], condition |-> TRUE]
            ELSE [s |-> s, condition |-> FALSE]
      [] instr.op = "JR_CC_E8" ->
            IF cc_flag(s.f, instr.cc) THEN [s |-> jr(s, instr.n, checks), condition |-> TRUE]
            ELSE [s |-> s, condition |-> FALSE]
      [] instr.op = "CALL_CC_N16" ->
            IF cc_flag(s.f, instr.cc)
            THEN [s |-> call_body(s, instr.n, checks), condition |-> TRUE]
            ELSE [s |-> PushWord(s, s.pc, checks), condition |-> FALSE]

\* the arms RET_CC, JP_CC_N16, JR_CC_E8 and CALL_CC_N16
cond_arm(s, instr, checks) ==
    CASE instr.op = "RET_CC" ->
            IF cc_flag(s.f, instr.cc) THEN [s |-> ret_body(s), condition |-> TRUE]
            ELSE [s |-> s, condition |-> FALSE]
      [] instr.op = "JP_CC_N16" ->
            IF cc_flag(s.f, instr.cc)
            THEN [s |-> [s EXCEPT !.pc = instr.n], condition |-> TRUE]
            ELSE [s |-> s, condition |-> FALSE]
      [] instr.op = "JR_CC_E8" ->
            IF cc_flag(s.f, instr.cc) THEN [s |-> jr(s, instr.n, checks), condition |-> TRUE]
            ELSE [s |-> s, condition |-> FALSE]
      [] instr.op = "CALL_CC_N16" ->
            IF cc_flag(s.f, instr.cc)
            THEN [s |-> call_body(s, instr.n, checks), condition |-> TRUE]
            ELSE [s |-> s, condition |-> FALSE]

\* the mask `bit.0` of a decoded bit index: one-hot, 0x01..0x80
U3Mask(b) == 2 ^ b

\* the arms BIT_U3_R8, BIT_U3_HL, RES_U3_R8, RES_U3_HL, SET_U3_R8, SET_U3_HL;
\* BIT assigns gb.f.z and nothing else
bit_arm(s, instr) ==
    LET mask == U3Mask(instr.n)
        m == BusRead(s, hl(s))
    IN CASE instr.op = "BIT_U3_R8" -> [s EXCEPT !.f.z = (BitAnd8(s.regs[instr.r], mask) = 0)]
         [] instr.op = "BIT_U3_HL" -> [s EXCEPT !.f.z = (BitAnd8(m, mask) = 0)]
         [] instr.op = "RES_U3_R8" ->
               [s EXCEPT !.regs[instr.r] = BitAnd8(s.regs[instr.r], BitNot8(mask))]
         [] instr.op = "RES_U3_HL" -> BusWrite(s, hl(s), BitAnd8(m, BitNot8(mask)))
         [] instr.op = "SET_U3_R8" -> [s EXCEPT !.regs[instr.r] = BitOr8(s.regs[instr.r], mask)]
         [] instr.op = "SET_U3_HL" -> BusWrite(s, hl(s), BitOr8(m, mask))

\* the match of execute_instruction: the state after the body and `condition`
execute_body(s, instr, checks) ==
    CASE instr.op = "NOP" -> [s |-> s, condition |-> TRUE]
      [] instr.op = "CALL_N16" ->
            LET s1 == PushWord(s, s.pc, checks)
            IN [s |-> IF s1.panic THEN s1 ELSE [s1 EXCEPT !.pc = instr.n], condition |-> TRUE]
      [] instr.op = "RET" -> [s |-> ret_body(s), condition |-> TRUE]
      [] instr.op = "RETI" -> [s |-> [ret_body(s) EXCEPT !.ime_counter = 1], condition |-> TRUE]
      [] instr.op = "DI" -> [s |-> [s EXCEPT !.ime = FALSE], condition |-> TRUE]
      [] instr.op = "EI" -> [s |-> [s EXCEPT !.ime_counter = 2], condition |-> TRUE]
      [] instr.op = "HALT" -> [s |-> s, condition |-> TRUE]
      [] instr.op \in {"RET_CC", "JP_CC_N16", "JR_CC_E8", "CALL_CC_N16"} ->
            cond_arm(s, instr, checks)
      [] instr.op \in {"ADD_A_R8", "ADD_A_N8"} ->
            [s |-> add_a(s, N8(s, instr), <<s.regs["a"], N8(s, instr)>>, 0, checks),
             condition |-> TRUE]
      [] instr.op \in {"ADC_A_R8", "ADC_A_N8"} ->
            LET carry == IF s.f.c THEN 1 ELSE 0
            IN [s |-> add_a(s, N8(s, instr), <<s.regs["a"], N8(s, instr), carry>>, carry, checks),
                condition |-> TRUE]
      [] instr.op \in {"SUB_A_R8", "SUB_A_N8"} ->
            [s |-> sub_a(s, N8(s, instr), <<s.regs["a"], N8(s, instr)>>, 0), condition |-> TRUE]
      [] instr.op \in {"SBC_A_R8", "SBC_A_N8"} ->
            LET carry == IF s.f.c THEN 1 ELSE 0
            IN [s |-> sub_a(s, N8(s, instr), <<s.regs["a"], N8(s, instr), carry>>, carry),
                condition |-> TRUE]
      [] instr.op \in {"ADC_A_HL", "ADD_A_HL"} ->
            LET carry == IF instr.op = "ADD_A_HL" THEN 1 ELSE IF s.f.c THEN 1 ELSE 0
                m == BusRead(s, hl(s))
            IN [s |-> add_a(s, m, <<s.regs["a"], m, carry>>, carry, checks), condition |-> TRUE]
      [] instr.op \in {"SBC_A_HL", "SUB_A_HL"} ->
            LET carry == IF instr.op = "SUB_A_HL" THEN 1 ELSE IF s.f.c THEN 1 ELSE 0
                m == BusRead(s, hl(s))
            IN [s |-> sub_a(s, m, <<s.regs["a"], m, carry>>, carry), condition |-> TRUE]
      [] instr.op \in {"BIT_U3_R8", "BIT_U3_HL", "RES_U3_R8", "RES_U3_HL", "SET_U3_R8",
                       "SET_U3_HL"} ->
            [s |-> bit_arm(s, instr), condition |-> TRUE]
      [] instr.op = "ADD_HL_R16" ->
            LET reg == to_address(s, instr.rr)
                hc == half_carry_16_add(hl(s), reg, 0)
                r == OverflowingAdd16(hl(s), reg)
            IN [s |-> set_flags(set_word_register(s, r.v, "HL"), s.f.z, FALSE, hc, r.o),
                condition |-> TRUE]
      [] instr.op = "ADD_HL_SP" ->
            LET r == OverflowingAdd16(hl(s), s.sp)
            IN [s |-> set_word_register(
                          set_flags(s, r.v = 0, TRUE, half_carry_16_add(hl(s), s.sp, 0), r.o),
                          r.v, "HL"),
                condition |-> TRUE]
      [] instr.op = "ADD_SP_E8" -> [s |-> add_sp_e8(s, instr.n, "SP"), condition |-> TRUE]
      [] instr.op = "LD_HL_SP_E8" -> [s |-> add_sp_e8(s, instr.n, "HL"), condition |-> TRUE]
      [] instr.op = "LD_R8_N8" -> [s |-> [s EXCEPT !.regs[instr.r] = instr.n], condition |-> TRUE]
      [] instr.op = "LD_R16_N16" ->
            [s |-> set_word_register(s, instr.n, instr.rr), condition |-> TRUE]
      [] instr.op = "POP_R16" -> [s |-> pop_r16(s, instr.rr), condition |-> TRUE]
      [] instr.op = "PUSH_AF" ->
            [s |-> push_byte(push_byte(s, s.regs["a"]), FlagValue(s.f)), condition |-> TRUE]
      [] instr.op = "PUSH_R16" ->
            [s |-> push_byte(push_byte(s, s.regs[High(instr.rr)]), s.regs[Low(instr.rr)]),
             condition |-> TRUE]
      [] instr.op = "JP_N16" -> [s |-> [s EXCEPT !.pc = instr.n], condition |-> TRUE]
      [] instr.op = "JR_E8" -> [s |-> jr(s, instr.n, checks), condition |-> TRUE]
      [] instr.op = "RST" ->
            [s |-> [push_byte(push_byte(s, Hi(s.pc)), Lo(s.pc)) EXCEPT !.pc = instr.n],
             condition |-> TRUE]

\* what a poll that never ran leaves in the observation
NoPoll == [counter_in |-> 0, ime_in |-> FALSE, ime_check |-> FALSE, pc |-> 0, sp |-> 0, enable |-> 0, flag |-> 0]

\* execute_instruction: advance PC, run the body, poll, and return the cycles
execute_instruction(s, instr, checks) ==
    LET a == AddU16(s.pc, Size(instr), checks)
    IN IF a.panic
       THEN [s |-> [s EXCEPT !.panic = TRUE], condition |-> TRUE, body_ran |-> FALSE,
             poll_ran |-> FALSE, poll |-> NoPoll, dispatched |-> 0, cycles |-> 0]
       ELSE LET b == execute_body([s EXCEPT !.pc = a.v], instr, checks)
                h == handle_interrupts(b.s, checks)
            IN IF b.s.panic
               THEN [s |-> b.s, condition |-> b.condition, body_ran |-> TRUE,
                     poll_ran |-> FALSE, poll |-> NoPoll, dispatched |-> 0, cycles |-> 0]
               ELSE [s |-> h.s, condition |-> b.condition, body_ran |-> TRUE,
                     poll_ran |-> TRUE, poll |-> h.poll, dispatched |-> h.dispatched,
                     cycles |-> Cycles(instr, b.condition) + (IF h.dispatched # 0 THEN 4 ELSE 0)]

----------------------------------------------------------------------------
(* The state machine of the CPU core *)

Cur == [pc |-> pc, sp |-> sp, ime |-> ime, ime_counter |-> ime_counter, mem |-> mem,
        enable |-> enable, flag |-> flag, f |-> f, regs |-> regs, panic |-> panicked]

Pre == [pc |-> pc, sp |-> sp, ime |-> ime, ime_counter |-> ime_counter, mem |-> mem,
        enable |-> enable, flag |-> flag, halted |-> halted, f |-> f, regs |-> regs,
        panic |-> panicked]

\* some source is both enabled in IE and requested in IF
Pending(en, fl) == BitAnd8(BitAnd8(en, fl), 31) # 0

\* what the next observation remembers of the present one
Prev == [kind |-> last.kind, op |-> last.op, ime_in |-> last.pre.ime,
         counter_in |-> last.pre.ime_counter, pending_in |-> Pending(last.pre.enable, last.pre.flag),
         poll_ran |-> last.poll_ran, dispatched |-> last.dispatched,
         instr |-> last.instr, pc_in |-> last.pre.pc, sp_in |-> last.pre.sp,
         regs_in |-> last.pre.regs, f_in |-> last.pre.f]

\* an Instruction value: the variant, its immediate, its condition code, its
\* 8-bit register operand and its 16-bit register operand ("-" where absent)
Ins(o, n, cc, r, rr) == [op |-> o, n |-> n, cc |-> cc, r |-> r, rr |-> rr]

\* the observation holds this where no instruction was executed
NoInstr == Ins("-", 0, "-", "-", "-")

\* the observation holds this while no interrupt has been dispatched
NoDisp == [on |-> FALSE, pc |-> 0, sp |-> 0]

Instructions ==
    {Ins(o, 0, "-", "-", "-") : o \in {"NOP", "EI", "DI", "HALT", "RET", "RETI"}}
    \cup {Ins("CALL_N16", 8192, "-", "-", "-")}
    \cup {Ins("JP_CC_N16", 336, c, "-", "-") : c \in {"NZ", "Z"}}

InitSP == {0, 1, 57328, 65534}
InitEnable == {NewEnable, 229, 250}
InitFlag == {NewFlag, 236}

Init ==
    /\ enable \in InitEnable
    /\ flag \in InitFlag
    /\ pc = 256
    /\ sp \in InitSP
    /\ ime \in BOOLEAN
    /\ ime_counter = -1
    /\ halted = FALSE
    /\ mem = <<>>
    /\ f = [z |-> FALSE, n |-> FALSE, h |-> FALSE, c |-> FALSE]
    /\ regs = ZeroRegs
    /\ overflow_checks \in BOOLEAN
    /\ panicked = FALSE
    /\ steps = 0
    /\ elapsed_cycles = 0
    /\ mmu_cycles = 0
    /\ last = [kind |-> "init", op |-> "-", pre |-> Pre, body_ran |-> FALSE,
               poll_ran |-> FALSE, poll |-> NoPoll,
               dispatched |-> 0, cycles |-> 0, cost |-> 0, condition |-> TRUE,
               instr |-> NoInstr, masked |-> FALSE, masked_in |-> FALSE,
               disp |-> NoDisp, disp_in |-> NoDisp,
               prev |-> [kind |-> "init", op |-> "-", ime_in |-> FALSE, counter_in |-> -1,
                         pending_in |-> FALSE, poll_ran |-> FALSE, dispatched |-> 0,
                         instr |-> NoInstr, pc_in |-> 0, sp_in |-> 0,
                         regs_in |-> ZeroRegs, f_in |-> f]]

\* the PC and SP that the most recent interrupt dispatch found on entry to
\* its poll
Disp(dispatched, poll) ==
    IF dispatched # 0 THEN [on |-> TRUE, pc |-> poll.pc, sp |-> poll.sp] ELSE last.disp

\* whether, after a step, an interrupt has been dispatched and no EI or RETI
\* has been executed since that dispatch (the poll follows the body, so a
\* dispatch in the step of an EI or RETI comes after it)
Masked(instr, body_ran, dispatched) ==
    IF dispatched # 0 THEN TRUE
    ELSE IF body_ran /\ instr.op \in {"EI", "RETI"} THEN FALSE
    ELSE last.masked

Install(s) ==
    /\ pc' = s.pc
    /\ sp' = s.sp
    /\ ime' = s.ime
    /\ ime_counter' = s.ime_counter
    /\ mem' = s.mem
    /\ enable' = s.enable
    /\ flag' = s.flag
    /\ f' = s.f
    /\ regs' = s.regs
    /\ panicked' = s.panic

\* Gameboy::cycle while not halted: fetch one instruction and execute it;
\* HALT enters the halted state
cycle_run(instr) ==
    /\ ~panicked
    /\ ~halted
    /\ steps < MaxSteps
    /\ \E r \in {execute_instruction(Cur, instr, overflow_checks)} :
          /\ Install(r.s)
          /\ halted' = (instr.op = "HALT" /\ r.body_ran)
          /\ last' = [kind |-> "instr", op |-> instr.op, pre |-> Pre,
                      body_ran |-> r.body_ran, poll_ran |-> r.poll_ran,
                      poll |-> r.poll, dispatched |-> r.dispatched, cycles |-> r.cycles,
                      cost |-> Cycles(instr, r.condition), condition |-> r.condition,
                      instr |-> instr, masked |-> Masked(instr, r.body_ran, r.dispatched),
                      masked_in |-> last.masked, disp |-> Disp(r.dispatched, r.poll),
                      disp_in |-> last.disp, prev |-> Prev]
    /\ steps' = steps + 1
    /\ UNCHANGED <<overflow_checks, elapsed_cycles, mmu_cycles>>

\* Gameboy::cycle while halted: one idle machine cycle that only polls; a
\* pending source ends the halt, with a dispatch only if IME is set
cycle_halt ==
    /\ ~panicked
    /\ halted
    /\ steps < MaxSteps
    /\ \E h \in {handle_interrupts(Cur, overflow_checks)} :
          /\ Install(h.s)
          /\ halted' = ~Pending(enable, flag)
          /\ last' = [kind |-> "halt", op |-> "-", pre |-> Pre, body_ran |-> FALSE,
                      poll_ran |-> TRUE,
                      poll |-> h.poll, dispatched |-> h.dispatched,
                      cycles |-> 4 + (IF h.dispatched # 0 THEN 20 ELSE 0),
                      cost |-> 4, condition |-> TRUE, instr |-> NoInstr,
                      masked |-> Masked(NoInstr, FALSE, h.dispatched),
                      masked_in |-> last.masked, disp |-> Disp(h.dispatched, h.poll),
                      disp_in |-> last.disp, prev |-> Prev]
    /\ steps' = steps + 1
    /\ UNCHANGED <<overflow_checks, elapsed_cycles, mmu_cycles>>

\* a peripheral raises source id between two steps: InterruptHandler::set(vec![id], true)
request(id) ==
    /\ ~panicked
    /\ steps < MaxSteps
    /\ flag' = set(flag, <<id>>, TRUE)
    /\ last' = [kind |-> "request", op |-> "-", pre |-> Pre, body_ran |-> FALSE,
                poll_ran |-> FALSE, poll |-> NoPoll,
                dispatched |-> 0, cycles |-> 0, cost |-> 0, condition |-> TRUE,
                instr |-> NoInstr, masked |-> last.masked, masked_in |-> last.masked,
                disp |-> last.disp, disp_in |-> last.disp, prev |-> Prev]
    /\ steps' = steps + 1
    /\ UNCHANGED <<enable, pc, sp, ime, ime_counter, halted, mem, f, regs, overflow_checks, panicked,
                   elapsed_cycles, mmu_cycles>>

Next ==
    \/ \E instr \in Instructions : cycle_run(instr)
    \/ cycle_halt
    \/ \E id \in InterruptIds : request(id)

Spec == Init /\ [][Next]_vars

----------------------------------------------------------------------------
(* The stack instructions: PUSH, POP, CALL and RET over a stack that holds *)
(* two arbitrary bytes, with VBlank enabled and possibly requested.        *)

StackInstructions ==
    {Ins("PUSH_R16", 0, "-", "-", rr) : rr \in {"BC", "DE", "HL"}}
    \cup {Ins("PUSH_AF", 0, "-", "-", "AF")}
    \cup {Ins("POP_R16", 0, "-", "-", rr) : rr \in {"BC", "DE", "HL", "AF"}}
    \cup {Ins("CALL_N16", 8192, "-", "-", "-"), Ins("RET", 0, "-", "-", "-")}

StackSP == {57328, 1}
StackBytes == {<<255, 18>>, <<90, 165>>}
StackRegs ==
    {[a |-> 18, b |-> 52, c |-> 86, d |-> 120, e |-> 154, h |-> 188, l |-> 222],
     [a |-> 255, b |-> 0, c |-> 255, d |-> 1, e |-> 128, h |-> 192, l |-> 15]}
StackFlags ==
    {[z |-> FALSE, n |-> FALSE, h |-> FALSE, c |-> FALSE],
     [z |-> TRUE, n |-> FALSE, h |-> TRUE, c |-> TRUE]}

\* the observation before the first step
InitLast ==
    [kind |-> "init", op |-> "-", pre |-> Pre, body_ran |-> FALSE,
     poll_ran |-> FALSE, poll |-> NoPoll,
     dispatched |-> 0, cycles |-> 0, cost |-> 0, condition |-> TRUE,
     instr |-> NoInstr, masked |-> FALSE, masked_in |-> FALSE,
               disp |-> NoDisp, disp_in |-> NoDisp,
     prev |-> [kind |-> "init", op |-> "-", ime_in |-> FALSE, counter_in |-> -1,
               pending_in |-> FALSE, poll_ran |-> FALSE, dispatched |-> 0,
               instr |-> NoInstr, pc_in |-> 0, sp_in |-> 0,
               regs_in |-> ZeroRegs, f_in |-> f]]

InitStack ==
    /\ enable = 225
    /\ flag \in {224, 225}
    /\ pc = 49152
    /\ sp \in StackSP
    /\ ime \in BOOLEAN
    /\ ime_counter = -1
    /\ halted = FALSE
    /\ \E bs \in StackBytes : mem = (sp :> bs[1]) @@ ((sp + 1) :> bs[2])
    /\ f \in StackFlags
    /\ regs \in StackRegs
    /\ overflow_checks \in BOOLEAN
    /\ panicked = FALSE
    /\ steps = 0
    /\ elapsed_cycles = 0
    /\ mmu_cycles = 0
    /\ last = InitLast

NextStack == \E instr \in StackInstructions : cycle_run(instr)

SpecStack == InitStack /\ [][NextStack]_vars

----------------------------------------------------------------------------
(* Control flow: plain instructions, jumps, calls and returns and their    *)
(* conditional forms, from a PC in the middle and at the top of the        *)
(* address space, with VBlank enabled and possibly requested.              *)

ConditionCodes == {"NZ", "Z", "NC", "C"}

FlowInstructions ==
    {Ins("NOP", 0, "-", "-", "-"), Ins("LD_R8_N8", 7, "-", "b", "-"),
     Ins("LD_R16_N16", 4660, "-", "-", "DE"), Ins("JP_N16", 336, "-", "-", "-"),
     Ins("JR_E8", 5, "-", "-", "-"), Ins("JR_E8", -3, "-", "-", "-"),
     Ins("CALL_N16", 8192, "-", "-", "-"), Ins("RET", 0, "-", "-", "-"),
     Ins("RST", 40, "-", "-", "-"), Ins("PUSH_R16", 0, "-", "-", "DE")}
    \cup {Ins("RET_CC", 0, cc, "-", "-") : cc \in ConditionCodes}
    \cup {Ins("JP_CC_N16", 336, cc, "-", "-") : cc \in ConditionCodes}
    \cup {Ins("JR_CC_E8", -3, cc, "-", "-") : cc \in ConditionCodes}
    \cup {Ins("CALL_CC_N16", 8192, cc, "-", "-") : cc \in ConditionCodes}

FlowPC == {256, 32765, 65535}
FlowSP == StackSP \cup {0}
FlowFlags == {[z |-> z, n |-> FALSE, h |-> FALSE, c |-> c] : z \in BOOLEAN, c \in BOOLEAN}

InitFlow ==
    /\ enable = 225
    /\ flag \in {224, 225}
    /\ pc \in FlowPC
    /\ sp \in FlowSP
    /\ ime = TRUE
    /\ ime_counter = -1
    /\ halted = FALSE
    /\ mem = (sp :> 52) @@ ((sp + 1) :> 18)
    /\ f \in FlowFlags
    /\ regs = ZeroRegs
    /\ overflow_checks \in BOOLEAN
    /\ panicked = FALSE
    /\ steps = 0
    /\ elapsed_cycles = 0
    /\ mmu_cycles = 0
    /\ last = InitLast

NextFlow == \E instr \in FlowInstructions : steps < MaxFlowSteps /\ cycle_run(instr)

SpecFlow == InitFlow /\ [][NextFlow]_vars

----------------------------------------------------------------------------
(* Arithmetic: each instruction applied once to operands at the carry and  *)
(* half-carry boundaries, with no interrupt enabled.                       *)

AluBytes == {0, 1, 15, 255}
AluOffsets == {8, -1}

AluInstructions ==
    {Ins(o, 0, "-", "b", "-") : o \in {"ADD_A_R8", "ADC_A_R8", "SUB_A_R8", "SBC_A_R8"}}
    \cup {Ins(o, n, "-", "-", "-") : o \in {"ADD_A_N8", "ADC_A_N8", "SUB_A_N8", "SBC_A_N8"},
                                     n \in AluBytes}
    \cup {Ins("ADD_HL_R16", 0, "-", "-", rr) : rr \in {"BC", "DE", "HL"}}
    \cup {Ins("ADD_HL_SP", 0, "-", "-", "SP")}
    \cup {Ins(o, e, "-", "-", "-") : o \in {"ADD_SP_E8", "LD_HL_SP_E8"}, e \in AluOffsets}

AluSP == {65528, 15, 4095}

InitALU ==
    /\ enable = NewEnable
    /\ flag = NewFlag
    /\ pc = 256
    /\ sp \in AluSP
    /\ ime = FALSE
    /\ ime_counter = -1
    /\ halted = FALSE
    /\ mem = <<>>
    /\ \E z \in BOOLEAN, c \in BOOLEAN : f = [z |-> z, n |-> TRUE, h |-> ~c, c |-> c]
    /\ \E a \in AluBytes, b \in AluBytes, h \in {15, 255} :
          regs = [a |-> a, b |-> b, c |-> 1, d |-> 240, e |-> 1, h |-> h, l |-> 255]
    /\ overflow_checks \in BOOLEAN
    /\ panicked = FALSE
    /\ steps = 0
    /\ elapsed_cycles = 0
    /\ mmu_cycles = 0
    /\ last = InitLast

NextALU == \E instr \in AluInstructions : steps < MaxAluSteps /\ cycle_run(instr)

SpecALU == InitALU /\ [][NextALU]_vars

----------------------------------------------------------------------------
(* Bit instructions and the (HL) forms of the 8-bit arithmetic: each       *)
(* applied to a register and to the byte at HL = 0xC000, from every        *)
(* combination of the four flags.                                          *)

BitIndexes == {0, 3, 7}
HlBytes == {0, 1, 15, 165, 255}
BitRegBytes == {0, 165}

BitOps == {"BIT_U3_R8", "BIT_U3_HL", "RES_U3_R8", "RES_U3_HL", "SET_U3_R8", "SET_U3_HL"}
HlAluOps == {"ADD_A_HL", "ADC_A_HL", "SUB_A_HL", "SBC_A_HL"}

BitInstructions ==
    {Ins(o, b, "-", "b", "-") : o \in {"BIT_U3_R8", "RES_U3_R8", "SET_U3_R8"}, b \in BitIndexes}
    \cup {Ins(o, b, "-", "-", "-") : o \in {"BIT_U3_HL", "RES_U3_HL", "SET_U3_HL"},
                                     b \in BitIndexes}
    \cup {Ins(o, 0, "-", "-", "-") : o \in HlAluOps}

InitBit ==
    /\ enable = NewEnable
    /\ flag = NewFlag
    /\ pc = 256
    /\ sp = 57328
    /\ ime = FALSE
    /\ ime_counter = -1
    /\ halted = FALSE
    /\ \E m \in HlBytes : mem = (49152 :> m)
    /\ f \in [z : BOOLEAN, n : BOOLEAN, h : BOOLEAN, c : BOOLEAN]
    /\ \E a \in AluBytes, b \in BitRegBytes :
          regs = [a |-> a, b |-> b, c |-> 1, d |-> 240, e |-> 1, h |-> 192, l |-> 0]
    /\ overflow_checks \in BOOLEAN
    /\ panicked = FALSE
    /\ steps = 0
    /\ elapsed_cycles = 0
    /\ mmu_cycles = 0
    /\ last = InitLast

NextBit == \E instr \in BitInstructions : steps < MaxAluSteps /\ cycle_run(instr)

SpecBit == InitBit /\ [][NextBit]_vars

----------------------------------------------------------------------------
(* main.rs: the frame loop of the host.  Gameboy::cycle is seen from the   *)
(* outside: it returns a cycle count, charges some cycles to the bus and   *)
(* leaves the core halted or running.                                      *)

CYCLES_PER_FRAME == 17556

\* cycle counts a step returns, and by how much the cycles charged to the bus
\* during the step differ from them
StepCycles == {4, 24}
ChargeDiffs == {-4, 0, 4}

\* the outcomes of one call of gameboy.cycle()
CycleOutcomes ==
    {[cycles |-> c, charged |-> c + d, halted |-> h] :
        c \in StepCycles, d \in ChargeDiffs, h \in BOOLEAN}

\* the condition of `while elapsed_cycles < CYCLES_PER_FRAME`
while_cond(elapsed) == elapsed < CYCLES_PER_FRAME

\* the loop body with mmu.cycles left as the step charged it
frame_body_m(elapsed, mmu, previously_halted, o, checks) ==
    LET e == AddU16(elapsed, o.cycles, checks)
        bus == mmu + o.charged
        mem_cycles == SubU16(o.cycles, bus, checks)
    IN IF e.panic \/ mem_cycles.panic
       THEN [panic |-> TRUE, elapsed |-> elapsed, mmu |-> bus, bus |-> bus, mem_cycles |-> 0]
       ELSE IF mem_cycles.v # 0 /\ ~previously_halted /\ ~o.halted
       THEN [panic |-> TRUE, elapsed |-> e.v, mmu |-> bus, bus |-> bus,
             mem_cycles |-> mem_cycles.v]
       ELSE [panic |-> FALSE, elapsed |-> e.v, mmu |-> bus, bus |-> bus,
             mem_cycles |-> mem_cycles.v]

\* the body of the loop of run_frame after gameboy.cycle() returned outcome o:
\* `elapsed_cycles += cycles` and `cycles - gameboy.mmu.cycles` are plain u16
\* operations; the remaining mem_cycles are ticked and mmu.cycles is reset
frame_body(elapsed, mmu, previously_halted, o, checks) ==
    LET e == AddU16(elapsed, o.cycles, checks)
        bus == mmu + o.charged
        mem_cycles == SubU16(o.cycles, bus, checks)
    IN IF e.panic \/ mem_cycles.panic
       THEN [panic |-> TRUE, elapsed |-> elapsed, mmu |-> bus, bus |-> bus, mem_cycles |-> 0]
       ELSE IF mem_cycles.v # 0 /\ ~previously_halted /\ ~o.halted
       THEN [panic |-> TRUE, elapsed |-> e.v, mmu |-> bus, bus |-> bus,
             mem_cycles |-> mem_cycles.v]
       ELSE [panic |-> FALSE, elapsed |-> e.v, mmu |-> 0, bus |-> bus,
             mem_cycles |-> mem_cycles.v]

InitFrame ==
    /\ enable = NewEnable
    /\ flag = NewFlag
    /\ pc = 256
    /\ sp = 65534
    /\ ime = FALSE
    /\ ime_counter = -1
    /\ halted \in BOOLEAN
    /\ mem = <<>>
    /\ f = [z |-> FALSE, n |-> FALSE, h |-> FALSE, c |-> FALSE]
    /\ regs = ZeroRegs
    /\ overflow_checks \in BOOLEAN
    /\ panicked = FALSE
    /\ steps = 0
    /\ elapsed_cycles = 0
    /\ mmu_cycles = 0
    /\ last = [kind |-> "start", cycles |-> 0, bus |-> 0, previously_halted |-> FALSE,
               elapsed_in |-> 0]

\* one iteration of the loop of run_frame
frame_step(o) ==
    /\ ~panicked
    /\ while_cond(elapsed_cycles)
    /\ \E r \in {frame_body(elapsed_cycles, mmu_cycles, halted, o, overflow_checks)} :
          /\ elapsed_cycles' = r.elapsed
          /\ mmu_cycles' = r.mmu
          /\ panicked' = r.panic
          /\ last' = [kind |-> "step", cycles |-> o.cycles, bus |-> r.bus,
                      previously_halted |-> halted, elapsed_in |-> elapsed_cycles]
    /\ halted' = o.halted
    /\ UNCHANGED <<enable, flag, pc, sp, ime, ime_counter, mem, f, regs, overflow_checks, steps>>

NextFrame == \E o \in CycleOutcomes : frame_step(o)

SpecFrame == InitFrame /\ [][NextFrame]_vars

\* the loop is sequential code: an iteration that can run does run
SpecFrameFair == SpecFrame /\ WF_vars(NextFrame)

----------------------------------------------------------------------------
(* The interrupt controller on its own *)

WriteAddresses == {IE_ADDRESS, IF_ADDRESS, 65294}
WriteValues == {0, 1, 5, 10, 21, 31, 64, 255}
SetVecs == {<<id>> : id \in InterruptIds} \cup {<<VBlankInt, TimerInt>>, <<>>}

InitIC ==
    /\ enable = NewEnable
    /\ flag = NewFlag
    /\ pc = 0
    /\ sp = 0
    /\ ime = FALSE
    /\ ime_counter = -1
    /\ halted = FALSE
    /\ mem = <<>>
    /\ f = [z |-> FALSE, n |-> FALSE, h |-> FALSE, c |-> FALSE]
    /\ regs = ZeroRegs
    /\ overflow_checks = FALSE
    /\ panicked = FALSE
    /\ steps = 0
    /\ elapsed_cycles = 0
    /\ mmu_cycles = 0
    /\ last = [kind |-> "new", address |-> 0, value |-> 0, interrupts |-> <<>>, ret |-> FALSE,
               pre_enable |-> NewEnable, pre_flag |-> NewFlag]

\* InterruptHandler::write
ic_write(address, value) ==
    /\ \E w \in {write(enable, flag, address, value)} :
          /\ enable' = w.enable
          /\ flag' = w.flag
          /\ last' = [kind |-> "write", address |-> address, value |-> value, interrupts |-> <<>>,
                      ret |-> w.ret, pre_enable |-> enable, pre_flag |-> flag]
    /\ UNCHANGED cpu_vars

\* InterruptHandler::set: request (on = TRUE) or clear (on = FALSE)
ic_set(interrupts, on) ==
    /\ flag' = set(flag, interrupts, on)
    /\ last' = [kind |-> IF on THEN "request" ELSE "clear", address |-> 0, value |-> 0,
                interrupts |-> interrupts, ret |-> FALSE, pre_enable |-> enable, pre_flag |-> flag]
    /\ UNCHANGED enable
    /\ UNCHANGED cpu_vars

NextIC ==
    \/ \E a \in WriteAddresses, v \in WriteValues : ic_write(a, v)
    \/ \E v \in SetVecs, on \in BOOLEAN : ic_set(v, on)

SpecIC == InitIC /\ [][NextIC]_vars

----------------------------------------------------------------------------
(* Vocabulary of the claims *)

\* source id itself is enabled in IE / requested in IF
OwnEnabled(en, id) == Bit(en, (id - 64) \div 8) = 1
OwnRequested(fl, id) == Bit(fl, (id - 64) \div 8) = 1
OwnActive(en, fl, id) == OwnEnabled(en, id) /\ OwnRequested(fl, id)

OwnState(en, fl, id) ==
    IF OwnActive(en, fl, id) THEN "Active"
    ELSE IF OwnEnabled(en, id) THEN "Enabled"
    ELSE IF OwnRequested(fl, id) THEN "Requested"
    ELSE "Inactive"

\* the highest-priority source that is enabled and requested (lowest vector)
Highest(en, fl) ==
    CHOOSE id \in InterruptIds :
        /\ OwnActive(en, fl, id)
        /\ \A j \in InterruptIds : OwnActive(en, fl, j) => id <= j

AnyActive(en, fl) == \E id \in InterruptIds : OwnActive(en, fl, id)

\* the bus as it was before the last step
PreBus == [enable |-> last.pre.enable, flag |-> last.pre.flag, mem |-> last.pre.mem]

----------------------------------------------------------------------------
(* Claims *)

\* C1: whenever the end-of-instruction poll runs with IME set and some source
\* enabled and requested, the highest-priority such source is dispatched: IME
\* is cleared, PC is pushed (SP decreased by 2) and PC is its vector; where
\* the two stack bytes are plain memory, only its IF bit is cleared, IE is
\* unchanged, the high byte is at SP-1 and the low byte at SP-2.
C1_DispatchHighestPriority ==
    (last.kind = "instr" /\ last.poll_ran /\ last.poll.ime_check
        /\ AnyActive(last.poll.enable, last.poll.flag)) =>
    LET id == Highest(last.poll.enable, last.poll.flag)
        hi_at == (last.poll.sp - 1) % 65536
        lo_at == (last.poll.sp - 2) % 65536
    IN /\ ~panicked
       /\ last.dispatched = id
       /\ ime = FALSE
       /\ sp = lo_at
       /\ pc = id
       /\ ({hi_at, lo_at} \cap {IE_ADDRESS, IF_ADDRESS} = {}) =>
              /\ flag = last.poll.flag - Mask(id)
              /\ enable = last.poll.enable
              /\ BusRead(Cur, hi_at) = Hi(last.poll.pc)
              /\ BusRead(Cur, lo_at) = Lo(last.poll.pc)

\* C2: starting with IME off and no delayed enable pending, EI immediately
\* followed by DI leaves IME off and the counter idle after both steps.
C2_EiDiLeavesImeOff ==
    (last.kind = "instr" /\ last.op = "DI" /\ ~panicked
        /\ last.prev.kind = "instr" /\ last.prev.op = "EI"
        /\ ~last.prev.ime_in /\ last.prev.counter_in <= 0) =>
    (ime = FALSE /\ ime_counter = -1)

\* C3: EI has one instruction of latency: starting with IME off, IME is still
\* off in the poll of the EI step and nothing is dispatched there, and IME
\* becomes true during the step of the instruction after EI unless that is DI.
C3_EiLatency ==
    /\ (last.kind = "instr" /\ last.op = "EI" /\ ~last.pre.ime) =>
           (last.poll_ran /\ ~last.poll.ime_check /\ last.dispatched = 0 /\ ~ime)
    /\ (last.kind = "instr" /\ last.op # "DI" /\ ~panicked
           /\ last.prev.kind = "instr" /\ last.prev.op = "EI" /\ ~last.prev.ime_in) =>
           (last.poll_ran /\ last.poll.ime_check)

\* C4: RETI pops PC exactly like RET and schedules IME for the next
\* instruction, so a source enabled and requested when RETI executes is
\* dispatched on the step right after the RETI step, not in it.
C4_RetiDispatchNextStep ==
    /\ (last.kind = "instr" /\ last.op = "RETI" /\ last.poll_ran) =>
           /\ last.poll.pc = BusRead(PreBus, last.pre.sp)
                               + 256 * BusRead(PreBus, (last.pre.sp + 1) % 65536)
           /\ last.poll.sp = (last.pre.sp + 2) % 65536
    /\ (last.kind = "instr" /\ last.op = "RETI" /\ ~last.pre.ime
           /\ AnyActive(last.pre.enable, last.pre.flag)) =>
           last.dispatched = 0
    /\ (last.kind = "instr" /\ last.prev.kind = "instr" /\ last.prev.op = "RETI"
           /\ ~last.prev.ime_in /\ last.prev.pending_in) =>
           last.dispatched # 0

\* C5: a halted CPU with IME off and a source enabled and requested leaves the
\* halted state at the next poll without dispatching: IF, PC, SP and memory
\* are unchanged and no vector is taken.
C5_HaltWakeNoDispatch ==
    (last.kind = "halt" /\ last.pre.halted /\ ~last.pre.ime
        /\ AnyActive(last.pre.enable, last.pre.flag)) =>
    /\ ~halted
    /\ ~panicked
    /\ last.dispatched = 0
    /\ flag = last.pre.flag
    /\ pc = last.pre.pc
    /\ sp = last.pre.sp
    /\ mem = last.pre.mem

C5_Witness ==
    /\ last.kind = "halt" /\ last.pre.halted /\ ~last.pre.ime
    /\ AnyActive(last.pre.enable, last.pre.flag)
    /\ ~halted

\* C6: executing HALT leaves the CPU halted, and while it stays halted no
\* step executes an instruction or changes PC.
C6_HaltStops ==
    /\ (last.kind = "instr" /\ last.op = "HALT" /\ last.body_ran) => halted
    /\ (last.pre.halted /\ halted) => (last.kind # "instr" /\ pc = last.pre.pc)

C6_Witness ==
    /\ last.kind = "halt" /\ last.pre.halted /\ halted
    /\ last.prev.op = "HALT"

\* C7: in every poll a positive ime_counter is decremented by one and sets IME
\* exactly when it reaches zero; a counter that is not positive sets nothing
\* and parks at -1; only EI (2) and RETI (1) reload it.
C7_CounterRule ==
    last.poll_ran =>
    LET c == last.poll.counter_in
    IN /\ c > 0 => ime_counter = c - 1
       /\ c <= 0 => ime_counter = -1
       /\ last.poll.ime_check = (last.poll.ime_in \/ c = 1)
       /\ c = (IF last.kind = "instr" /\ last.op = "EI" THEN 2
               ELSE IF last.kind = "instr" /\ last.op = "RETI" THEN 1
               ELSE last.pre.ime_counter)

C7_Witness ==
    /\ last.poll_ran /\ last.poll.counter_in = 1 /\ ime_counter = 0
    /\ ~last.poll.ime_in /\ last.poll.ime_check

\* C8: the cycles returned by a step are the instruction's own cost plus
\* exactly 20 if an interrupt was dispatched at its end, plus 0 otherwise.
C8_CyclesPlus20 ==
    (last.kind = "instr" /\ last.poll_ran /\ ~panicked) =>
    last.cycles = last.cost + (IF last.dispatched # 0 THEN 20 ELSE 0)

\* C9: in every reachable state of the controller, from construction on,
\* read(0xFFFF) and read(0xFF0F) return a byte with bits 5, 6 and 7 set.
C9_UpperBitsRead ==
    /\ BitAnd8(read(enable, flag, IE_ADDRESS), 224) = 224
    /\ BitAnd8(read(enable, flag, IF_ADDRESS), 224) = 224

\* C10 as claimed: the state query of every source is decided by that
\* source's own two bits.
C10_StateOwnBits ==
    \A id \in InterruptIds : get_state(enable, flag, id) = OwnState(enable, flag, id)

\* C10 amended: calc_state(i) is decided by source i's own two bits, and
\* get_state(i) is Active whenever a source of higher priority is enabled and
\* requested, and otherwise the state of source i's own two bits.
C10_StateOrShadowed ==
    \A id \in InterruptIds :
        /\ calc_state(enable, flag, id) = OwnState(enable, flag, id)
        /\ get_state(enable, flag, id) =
              (IF \E j \in InterruptIds : j < id /\ OwnActive(enable, flag, j)
               THEN "Active" ELSE OwnState(enable, flag, id))

C10_Witness ==
    \E id \in InterruptIds :
        /\ OwnState(enable, flag, id) = "Requested"
        /\ get_state(enable, flag, id) = "Active"

\* C11: request(i) sets and clear(i) clears exactly source i's bit of IF: every
\* other bit of IF and the whole of IE are unchanged, requesting a requested
\* source or clearing a clear one changes nothing, and a write to an address
\* other than 0xFFFF and 0xFF0F returns false and leaves IE and IF unchanged.
C11_SetClearFrame ==
    /\ (last.kind \in {"request", "clear"} /\ Len(last.interrupts) = 1) =>
           LET i == last.interrupts[1]
               b == (i - 64) \div 8
           IN /\ enable = last.pre_enable
              /\ \A k \in 0..7 : k # b => Bit(flag, k) = Bit(last.pre_flag, k)
              /\ Bit(flag, b) = (IF last.kind = "request" THEN 1 ELSE 0)
              /\ (Bit(last.pre_flag, b) = Bit(flag, b)) => flag = last.pre_flag
    /\ (last.kind = "write" /\ last.address \notin {IE_ADDRESS, IF_ADDRESS}) =>
           (~last.ret /\ enable = last.pre_enable /\ flag = last.pre_flag)

\* a source already requested is requested again while other bits are set
C11_Witness ==
    /\ last.kind = "request" /\ Len(last.interrupts) = 1
    /\ OwnRequested(last.pre_flag, last.interrupts[1])
    /\ flag = last.pre_flag
    /\ flag # Mask(last.interrupts[1])
    /\ enable # 0

\* the two stack slots below address a, as a set
Slots(a) == {(a - 1) % 65536, (a - 2) % 65536}

\* the slots below a are plain memory, not IE or IF
Plain(a) == Slots(a) \cap {IE_ADDRESS, IF_ADDRESS} = {}

\* the pair rr as <<high byte, low byte>>, F by its packed value
PairOf(rg, fl, rr) ==
    IF rr = "AF" THEN <<rg["a"], FlagValue(fl)>> ELSE <<rg[High(rr)], rg[Low(rr)]>>

C13_PushPopRestores ==
    /\ (last.kind = "instr" /\ last.op \in {"PUSH_R16", "PUSH_AF"} /\ last.body_ran
           /\ Plain(last.pre.sp)) =>
           /\ BusRead(Cur, (last.pre.sp - 1) % 65536)
                 = PairOf(last.pre.regs, last.pre.f, last.instr.rr)[1]
           /\ BusRead(Cur, (last.pre.sp - 2) % 65536)
                 = PairOf(last.pre.regs, last.pre.f, last.instr.rr)[2]
           /\ last.poll.sp = (last.pre.sp - 2) % 65536
    /\ (last.kind = "instr" /\ last.op = "POP_R16" /\ last.body_ran /\ last.dispatched = 0
           /\ last.prev.kind = "instr" /\ last.prev.op \in {"PUSH_R16", "PUSH_AF"}
           /\ last.prev.instr.rr = last.instr.rr
           /\ last.prev.poll_ran /\ last.prev.dispatched = 0 /\ Plain(last.prev.sp_in)) =>
           /\ PairOf(regs, f, last.instr.rr)
                 = PairOf(last.prev.regs_in, last.prev.f_in, last.instr.rr)
           /\ sp = last.prev.sp_in
           /\ ~panicked

\* PUSH DE then POP DE has run with D and E different
C13_Witness ==
    /\ last.kind = "instr" /\ last.op = "POP_R16" /\ last.instr.rr = "DE"
    /\ last.dispatched = 0
    /\ last.prev.kind = "instr" /\ last.prev.op = "PUSH_R16" /\ last.prev.instr.rr = "DE"
    /\ last.prev.poll_ran /\ last.prev.dispatched = 0 /\ Plain(last.prev.sp_in)
    /\ regs["d"] = 120 /\ regs["e"] = 154 /\ sp = 57328

\* C14: CALL nn at address p sets PC = nn, decreases SP by 2 and leaves p+3
\* on the stack (low byte at the new SP, high byte above it); a RET that
\* follows with SP and the two bytes unmodified sets PC = p+3 and restores SP.
C14_CallRet ==
    /\ (last.kind = "instr" /\ last.op = "CALL_N16") =>
           /\ last.poll_ran
           /\ last.poll.pc = last.instr.n
           /\ last.poll.sp = (last.pre.sp - 2) % 65536
           /\ Plain(last.pre.sp) =>
                  /\ BusRead(Cur, (last.pre.sp - 2) % 65536) = Lo(last.pre.pc + 3)
                  /\ BusRead(Cur, (last.pre.sp - 1) % 65536) = Hi(last.pre.pc + 3)
    /\ (last.kind = "instr" /\ last.op = "RET" /\ last.poll_ran
           /\ last.prev.kind = "instr" /\ last.prev.op = "CALL_N16"
           /\ last.prev.poll_ran /\ last.prev.dispatched = 0 /\ Plain(last.prev.sp_in)) =>
           /\ last.poll.pc = last.prev.pc_in + 3
           /\ last.poll.sp = last.prev.sp_in

\* the instructions that set PC explicitly
JumpOps == {"JP_N16", "JP_CC_N16", "JR_E8", "JR_CC_E8", "CALL_N16", "CALL_CC_N16",
            "RET", "RET_CC", "RETI", "RST"}

\* the word at the top of the stack that was pushed from address a
PushedFrom(a) ==
    FromLeBytes(BusRead(Cur, (a - 2) % 65536), BusRead(Cur, (a - 1) % 65536))

\* C15: a step of an instruction that is not a jump, call, return or RST and
\* dispatches no interrupt leaves PC = PC before + encoded length; the advance
\* precedes the body: CALL and RST push the advanced PC and JR adds its
\* displacement to it.
C15_PcAdvance ==
    /\ (last.kind = "instr" /\ last.op \notin JumpOps /\ last.dispatched = 0) =>
           pc = (last.pre.pc + Size(last.instr)) % 65536
    /\ (last.kind = "instr" /\ last.op \in {"CALL_N16", "RST"} /\ last.poll_ran
           /\ Plain(last.pre.sp)) =>
           PushedFrom(last.pre.sp) = (last.pre.pc + Size(last.instr)) % 65536
    /\ (last.kind = "instr" /\ last.op = "JR_E8" /\ last.poll_ran) =>
           last.poll.pc = (last.pre.pc + Size(last.instr) + last.instr.n) % 65536

\* the conditional forms and the unconditional form of each
CondOps == {"RET_CC", "JP_CC_N16", "JR_CC_E8", "CALL_CC_N16"}

Uncond(instr) ==
    Ins(CASE instr.op = "RET_CC" -> "RET" [] instr.op = "JP_CC_N16" -> "JP_N16"
          [] instr.op = "JR_CC_E8" -> "JR_E8" [] instr.op = "CALL_CC_N16" -> "CALL_N16",
        instr.n, "-", "-", "-")

\* NZ = !Z, Z = Z, NC = !C, C = C
Holds(fl, cc) ==
    (cc = "NZ" /\ ~fl.z) \/ (cc = "Z" /\ fl.z) \/ (cc = "NC" /\ ~fl.c) \/ (cc = "C" /\ fl.c)

\* C16: a conditional JR, JP, CALL or RET whose condition is false leaves the
\* body with PC = PC + encoded length and SP, memory, IE, IF, registers and
\* flags unchanged, and the step reports the not-taken cycle count; one whose
\* condition is true has the effect of the unconditional form.
C16_ConditionalFrame ==
    /\ (last.kind = "instr" /\ last.op \in CondOps /\ last.body_ran
           /\ ~Holds(last.pre.f, last.instr.cc)) =>
           /\ last.poll_ran /\ ~last.condition
           /\ last.poll.pc = (last.pre.pc + Size(last.instr)) % 65536
           /\ last.poll.sp = last.pre.sp
           /\ last.poll.enable = last.pre.enable /\ last.poll.flag = last.pre.flag
           /\ last.dispatched = 0 => mem = last.pre.mem
           /\ \A a \in DOMAIN last.pre.mem : a \in DOMAIN mem /\ mem[a] = last.pre.mem[a]
           /\ regs = last.pre.regs /\ f = last.pre.f
           /\ last.cycles = Cycles(last.instr, FALSE) + (IF last.dispatched # 0 THEN 4 ELSE 0)
           /\ Cycles(last.instr, FALSE) < Cycles(last.instr, TRUE)
    /\ (last.kind = "instr" /\ last.op \in CondOps /\ last.body_ran
           /\ Holds(last.pre.f, last.instr.cc)) =>
           LET u == execute_instruction(last.pre, Uncond(last.instr), overflow_checks)
           IN /\ last.condition
              /\ pc = u.s.pc /\ sp = u.s.sp /\ mem = u.s.mem
              /\ enable = u.s.enable /\ flag = u.s.flag /\ ime = u.s.ime
              /\ regs = u.s.regs /\ f = u.s.f /\ panicked = u.s.panic
              /\ last.dispatched = u.dispatched
              /\ (last.poll_ran /\ last.op \in {"JP_CC_N16", "CALL_CC_N16"}) =>
                     last.poll.pc = last.instr.n
              /\ last.cost = Cycles(last.instr, TRUE)

\* CALL NC is not taken with the carry flag set; RET Z is taken with Z set
C16_Witness ==
    /\ last.kind = "instr" /\ last.op = "RET_CC" /\ last.instr.cc = "Z" /\ last.pre.f.z
    /\ last.dispatched = 0 /\ sp = (last.pre.sp + 2) % 65536
    /\ last.prev.kind = "instr" /\ last.prev.op = "CALL_CC_N16" /\ last.prev.instr.cc = "NC"
    /\ last.prev.f_in.c /\ last.prev.poll_ran /\ last.pre.sp = last.prev.sp_in

\* the carry or borrow input of the last instruction: the C flag for ADC and
\* SBC, 0 for ADD and SUB
CarryIn ==
    IF last.op \in {"ADC_A_R8", "ADC_A_N8", "SBC_A_R8", "SBC_A_N8"} /\ last.pre.f.c THEN 1 ELSE 0

\* C17: ADD/ADC with a register or immediate operand n and carry-in c sets
\* A = (A + n + c) mod 256, Z = (result = 0), N = 0,
\* H = ((A & 0xF) + (n & 0xF) + c > 0xF) and C = (A + n + c > 0xFF).
C17_AddAdc ==
    (last.kind = "instr" /\ last.op \in {"ADD_A_R8", "ADD_A_N8", "ADC_A_R8", "ADC_A_N8"}
        /\ last.body_ran /\ ~panicked) =>
    LET A == last.pre.regs["a"]
        n == N8(last.pre, last.instr)
        c == CarryIn
    IN /\ regs["a"] = (A + n + c) % 256
       /\ f.z = ((A + n + c) % 256 = 0)
       /\ f.n = FALSE
       /\ f.h = ((A % 16) + (n % 16) + c > 15)
       /\ f.c = (A + n + c > 255)

\* C18: SUB/SBC with a register or immediate operand n and borrow-in c sets
\* A = (A - n - c) mod 256, Z = (result = 0), N = 1,
\* H = ((A & 0xF) < (n & 0xF) + c) and C = (A < n + c).
C18_SubSbc ==
    (last.kind = "instr" /\ last.op \in {"SUB_A_R8", "SUB_A_N8", "SBC_A_R8", "SBC_A_N8"}
        /\ last.body_ran /\ ~panicked) =>
    LET A == last.pre.regs["a"]
        n == N8(last.pre, last.instr)
        c == CarryIn
    IN /\ regs["a"] = (A - n - c) % 256
       /\ f.z = ((A - n - c) % 256 = 0)
       /\ f.n = TRUE
       /\ f.h = ((A % 16) < (n % 16) + c)
       /\ f.c = (A < n + c)

\* C19: ADD HL,rr for rr in BC, DE, HL, SP sets HL = (HL + rr) mod 2^16,
\* leaves Z unchanged, sets N = 0, H = carry from bit 11, C = carry from bit 15.
C19_AddHl ==
    (last.kind = "instr" /\ last.op \in {"ADD_HL_R16", "ADD_HL_SP"} /\ last.body_ran) =>
    LET HL == hl(last.pre)
        rr == to_address(last.pre, last.instr.rr)
    IN /\ hl(Cur) = (HL + rr) % 65536
       /\ f.z = last.pre.f.z
       /\ f.n = FALSE
       /\ f.h = ((HL % 4096) + (rr % 4096) > 4095)
       /\ f.c = (HL + rr > 65535)

\* C20: ADD SP,e8 and LD HL,SP+e8 store (SP + e8) mod 2^16 in SP and in HL and
\* set Z = 0, N = 0, H = carry from bit 3 and C = carry from bit 7 of adding
\* the unsigned byte of e8 to the low byte of SP.
C20_AddSpE8 ==
    (last.kind = "instr" /\ last.op \in {"ADD_SP_E8", "LD_HL_SP_E8"} /\ last.body_ran) =>
    LET SP == last.pre.sp
        e8 == last.instr.n
        byte == e8 % 256
    IN /\ (IF last.op = "ADD_SP_E8" THEN sp ELSE hl(Cur)) = (SP + e8) % 65536
       /\ f.z = FALSE
       /\ f.n = FALSE
       /\ f.h = ((SP % 16) + (byte % 16) > 15)
       /\ f.c = ((SP % 256) + byte > 255)

\* the operand x of a bit instruction in state s: the register, or the byte at (HL)
BitOperand(s, instr) ==
    IF instr.r # "-" THEN s.regs[instr.r] ELSE BusRead(s, hl(s))

\* C21: for every bit index b and operand x (register or byte at (HL)),
\* BIT b,x sets Z = (bit b of x is 0), N = 0 and H = 1 whatever the flags
\* were, leaves C and x unchanged; SET b,x and RES b,x change only bit b of x
\* (to 1, to 0) and change no flag.
C21_BitSetRes ==
    (last.kind = "instr" /\ last.body_ran /\ last.op \in BitOps) =>
        LET b == last.instr.n
            x == BitOperand(last.pre, last.instr)
            y == BitOperand(Cur, last.instr)
        IN IF last.op \in {"BIT_U3_R8", "BIT_U3_HL"}
           THEN /\ f.z = (Bit(x, b) = 0)
                /\ ~f.n
                /\ f.h
                /\ f.c = last.pre.f.c
                /\ regs = last.pre.regs
                /\ mem = last.pre.mem
           ELSE /\ \A k \in 0..7 :
                      Bit(y, k) = IF k # b THEN Bit(x, k)
                                  ELSE IF last.op \in {"SET_U3_R8", "SET_U3_HL"} THEN 1 ELSE 0
                /\ f = last.pre.f
                /\ \A r \in DOMAIN regs : r # last.instr.r => regs[r] = last.pre.regs[r]
                /\ \A a \in DOMAIN mem : a # hl(last.pre) => mem[a] = last.pre.mem[a]
                /\ last.instr.r # "-" => mem = last.pre.mem

\* the immediate form of an (HL) arithmetic instruction, with operand n
ImmediateForm(op, n) ==
    Ins(CASE op = "ADD_A_HL" -> "ADD_A_N8"
          [] op = "ADC_A_HL" -> "ADC_A_N8"
          [] op = "SUB_A_HL" -> "SUB_A_N8"
          [] op = "SBC_A_HL" -> "SBC_A_N8", n, "-", "-", "-")

\* C22: ADD/ADC/SUB/SBC A,(HL) behaves exactly like ADD/ADC/SUB/SBC A,n with
\* n = mem[HL]: from the same A, flags and memory it produces the same A and
\* the same Z, N, H, C (and fails where that one fails); so ADD and SUB take
\* no carry input and only ADC and SBC take the C flag.
C22_HlFormAsImmediate ==
    (last.kind = "instr" /\ last.body_ran /\ last.op \in HlAluOps) =>
        LET n == BusRead(last.pre, hl(last.pre))
            imm == execute_instruction(last.pre, ImmediateForm(last.op, n), overflow_checks).s
        IN /\ regs["a"] = imm.regs["a"]
           /\ f = imm.f
           /\ panicked = imm.panic

\* the instructions whose body pushes two bytes
Pushes(instr, condition) ==
    \/ instr.op \in {"CALL_N16", "RST", "PUSH_R16", "PUSH_AF"}
    \/ instr.op = "CALL_CC_N16" /\ condition

\* C23: PC and SP arithmetic wraps modulo 2^16 and never fails: no step
\* fails; CALL, a taken CALL cc, RST and PUSH executed with SP = 0 or 1 leave
\* the body with SP = (SP - 2) mod 2^16, and so does an interrupt dispatch
\* entered with SP = 0 or 1; an instruction that does not jump leaves the body
\* with PC = (PC + length) mod 2^16 and JR with (PC + length + e8) mod 2^16.
C23_PcSpWrap ==
    last.kind = "instr" =>
        /\ ~panicked
        /\ (last.pre.sp \in {0, 1} /\ Pushes(last.instr, cc_flag(last.pre.f, last.instr.cc))) =>
               last.poll_ran /\ last.poll.sp = (last.pre.sp - 2) % 65536
        /\ (last.poll_ran /\ last.dispatched # 0 /\ last.poll.sp \in {0, 1}) =>
               sp = (last.poll.sp - 2) % 65536
        /\ last.op \notin JumpOps =>
               last.poll_ran /\ last.poll.pc = (last.pre.pc + Size(last.instr)) % 65536
        /\ (last.op = "JR_E8" \/ (last.op = "JR_CC_E8" /\ cc_flag(last.pre.f, last.instr.cc))) =>
               last.poll_ran
               /\ last.poll.pc = (last.pre.pc + Size(last.instr) + last.instr.n) % 65536

\* run_frame has left its loop, by its condition or by a panic
FrameOver == panicked \/ ~while_cond(elapsed_cycles)

\* C24: run_frame terminates when every step returns at least one cycle: a
\* step is performed only while the accumulated count is below 17556, every
\* step adds the cycles it returned, mmu.cycles is 0 after every step that
\* did not abort, a step that was not halted before and is not halted after
\* and returned a count different from the cycles charged to the bus aborts,
\* and the loop is eventually left.
C24_RunFrameTerminates ==
    /\ [](last.kind = "step" =>
            /\ last.elapsed_in < CYCLES_PER_FRAME
            /\ last.cycles >= 1
            /\ ~panicked => elapsed_cycles = last.elapsed_in + last.cycles
            /\ ~panicked => mmu_cycles = 0
            /\ (~last.previously_halted /\ ~halted /\ last.cycles # last.bus) => panicked)
    /\ <>FrameOver

\* the loop was left by its condition after a last step taken while halted
\* that returned more cycles than were charged to the bus
C24_Witness ==
    /\ last.kind = "step"
    /\ ~panicked
    /\ elapsed_cycles >= CYCLES_PER_FRAME
    /\ last.elapsed_in = CYCLES_PER_FRAME - 4
    /\ last.previously_halted
    /\ last.cycles # last.bus

\* C25: interrupts do not nest by themselves: once an interrupt has been
\* dispatched, IME is false after every step and no step dispatches another
\* interrupt until an EI or RETI is executed after that dispatch; and IME
\* changes from false to true only in a poll that decrements ime_counter
\* from 1 to 0.
C25_NoNesting ==
    /\ last.masked => ~ime
    /\ (last.kind \in {"instr", "halt"} /\ last.masked_in
            /\ last.op \notin {"EI", "RETI"}) => last.dispatched = 0
    /\ (last.kind \in {"instr", "halt", "request"} /\ ime /\ ~last.pre.ime) =>
            last.poll_ran /\ last.poll.counter_in = 1 /\ ime_counter = 0

\* RETI is executed on the frame of the most recent dispatch: SP is where that
\* dispatch left it and the two bytes there are the ones it pushed
ReturnsFromDispatch ==
    /\ last.kind = "instr"
    /\ last.op = "RETI"
    /\ last.body_ran
    /\ last.disp_in.on
    /\ last.pre.sp = (last.disp_in.sp - 2) % 65536
    /\ BusRead(last.pre, last.pre.sp) = Lo(last.disp_in.pc)
    /\ BusRead(last.pre, (last.pre.sp + 1) % 65536) = Hi(last.disp_in.pc)

\* C26: dispatch and RETI are inverse on PC and SP: if an interrupt was
\* dispatched at the end of a step that left PC = p and SP = s, and RETI is
\* later executed with SP = s - 2 and the two pushed bytes unmodified, then
\* RETI leaves its body with PC = p and SP = s.
C26_DispatchRetiInverse ==
    ReturnsFromDispatch =>
        /\ last.poll_ran
        /\ last.poll.pc = last.disp_in.pc
        /\ last.poll.sp = last.disp_in.sp

\* RETI returned from an interrupt that was dispatched at the end of a CALL,
\* to an address whose two bytes differ
C26_Witness ==
    /\ ReturnsFromDispatch
    /\ ~panicked
    /\ last.disp_in.pc = 8192
    /\ last.poll.pc = 8192
====
